---- MODULE Spec2Model ----
(***************************************************************************)
(* State-machine model of the three governance primitives of               *)
(* project-tracking-mvp: ApprovalEngine (core/approval-engine.js), Ledger  *)
(* (core/ledger.js) and RBAC (core/rbac.js).  The components do not call   *)
(* one another, so each has a specification of its own over the shared     *)
(* variable list; a specification leaves the other components' variables   *)
(* at their initial values.                                                *)
(***************************************************************************)
EXTENDS Integers, Sequences, FiniteSets, TLC

VARIABLES
    now,            \* the wall clock, in milliseconds (what Date.now() returns)
    opCount,        \* number of calls made so far (bounds the runs)
    lastOp,         \* the call made last: the method's name and its arguments
    ret,            \* what that call returned (or the error it threw)
    approvals,      \* ApprovalEngine.approvals
    approvalStore,  \* localStorage['approval_requests'], parsed
    entries,        \* Ledger.entries
    ledgerStore,    \* localStorage[storageKey] of the ledger, parsed
    useHashing,     \* Ledger.useHashing
    tampered,       \* index of the entry edited behind the ledger's back (0: none)
    roles,          \* RBAC.roles
    users,          \* RBAC.users
    rbacStore,      \* localStorage['rbac_data'], parsed
    storage,        \* the component that runs, and the condition of its store
    checkpoints,    \* QAGates.checkpoints
    qaStore,        \* localStorage['qa_checkpoints'], parsed
    peerEntries,    \* Ledger.entries of a second instance over the same key
    verdicts        \* per project and stage: the last of pass() / fail() that
                    \* found a checkpoint ("none" before the first)

vars == <<now, opCount, lastOp, ret, approvals, approvalStore,
          entries, ledgerStore, useHashing, tampered, roles, users, rbacStore,
          storage, checkpoints, qaStore, peerEntries, verdicts>>

approvalVars == <<approvals, approvalStore>>
ledgerVars == <<entries, ledgerStore, useHashing, tampered>>
rbacVars == <<roles, users, rbacStore>>
qaVars == <<checkpoints, qaStore, verdicts>>

\* JavaScript's undefined: an absent property reads as undefined.
Undefined == "undefined"

\* A property that holds a list of strings, or is absent.  The engine only
\* asks a list which strings it includes, so a list is modelled by their set.
Absent == [defined |-> FALSE, items |-> {}]
List(s) == [defined |-> TRUE, items |-> s]

\* A call: the method and the arguments it was given.
Call(name, args) == [name |-> name, args |-> args]

\* What a call hands back: the value returned, or the Error thrown.
Returned(v) == [error |-> FALSE, value |-> v]
Thrown(msg) == [error |-> TRUE, value |-> msg]

\* ------------------------------------------------------------------------
\* Bounds
\* ------------------------------------------------------------------------

\* Calls made on one ApprovalEngine in a run.
MaxApprovalOps == 4

\* ------------------------------------------------------------------------
\* ApprovalEngine
\* ------------------------------------------------------------------------

Users == {"A", "B", "C"}

\* The request objects callers pass to requestApproval(): requiredApprovers
\* absent, empty, one approver, two approvers; the last one also carries an
\* `id` property of its own.
RequestInputs ==
    { [id |-> Undefined, requiredApprovers |-> Absent],
      [id |-> Undefined, requiredApprovers |-> List({})],
      [id |-> Undefined, requiredApprovers |-> List({"A"})],
      [id |-> Undefined, requiredApprovers |-> List({"A", "B"})],
      [id |-> "APR-0",   requiredApprovers |-> List({"A", "B"})] }

Comments == {""}

\* (user, reason) pairs passed to reject().
RejectInputs == { <<"C", "veto">>, <<"A", "late">> }

\* 'APR-' + Date.now()
NewApprovalId == "APR-" \o ToString(now)

\* The ids approve() and reject() are called with: one of each kind the
\* clock can have produced, and one that no request carries.
ApprovalIds == { "APR-" \o ToString(t) : t \in 0..1 } \cup { "APR-none" }

\* Variant of isFullyApproved: `some` where the engine has `every`.
isFullyApproved_some(approval) ==
    \E i \in 1..Len(approval.approvals) :
        /\ approval.requiredApprovers.defined
        /\ approval.approvals[i].userId \in approval.requiredApprovers.items

\* required.every(r => approved.includes(r)), with required = requiredApprovers || []
isFullyApproved(approval) ==
    LET required == IF approval.requiredApprovers.defined
                    THEN approval.requiredApprovers.items ELSE {}
        approved == { approval.approvals[i].userId : i \in 1..Len(approval.approvals) }
    IN  \A r \in required : r \in approved

\* Variant of FindApproval: the first request of the list when no request
\* has the id.
FindApproval_first(list, approvalId) ==
    IF \E i \in 1..Len(list) : list[i].id = approvalId
    THEN CHOOSE i \in 1..Len(list) :
            /\ list[i].id = approvalId
            /\ \A j \in 1..(i - 1) : list[j].id # approvalId
    ELSE IF Len(list) > 0 THEN 1 ELSE 0

\* this.approvals.find(a => a.id === approvalId): the index of the first
\* request with that id, 0 when there is none.
FindApproval(list, approvalId) ==
    IF \E i \in 1..Len(list) : list[i].id = approvalId
    THEN CHOOSE i \in 1..Len(list) :
            /\ list[i].id = approvalId
            /\ \A j \in 1..(i - 1) : list[j].id # approvalId
    ELSE 0

\* save(): JSON.stringify(this.approvals) into localStorage.  Every property
\* of a request is a string, a list of strings or a list of flat objects of
\* strings, which JSON.parse gives back as they were.
SaveApprovals(list) == list

\* { id: 'APR-' + Date.now(), ...request, status: 'pending', approvals: [],
\*   createdAt: ... }: the caller's properties come after `id` and before
\* `status` and `approvals`.
NewApproval(request) ==
    [ id                |-> IF request.id = Undefined THEN NewApprovalId ELSE request.id,
      requiredApprovers |-> request.requiredApprovers,
      status            |-> "pending",
      approvals         |-> << >>,
      createdAt         |-> now,
      rejectedBy        |-> Undefined,
      rejectionReason   |-> Undefined ]

\* Variant of StatusAfterApprove: the quorum counted by log length, not by
\* who is in the log.
StatusAfterApprove_count(approval) ==
    IF Len(approval.approvals) >= Cardinality(approval.requiredApprovers.items)
    THEN "approved" ELSE approval.status

\* The status approve() leaves after it has pushed onto the log.
StatusAfterApprove(approval) ==
    IF isFullyApproved(approval) THEN "approved" ELSE approval.status

\* Variant of Approved: an approver already in the log is not logged again.
Approved_once(approval, userId, comments) ==
    LET pushed == IF \E i \in 1..Len(approval.approvals) : approval.approvals[i].userId = userId
                  THEN approval
                  ELSE [approval EXCEPT !.approvals =
                           Append(@, [userId |-> userId, action |-> "approved",
                                      comments |-> comments, timestamp |-> now])]
    IN  [pushed EXCEPT !.status = StatusAfterApprove(pushed)]

\* The request approve() leaves: the log entry pushed, then the quorum test.
Approved(approval, userId, comments) ==
    LET pushed == [approval EXCEPT !.approvals =
                      Append(@, [userId |-> userId, action |-> "approved",
                                 comments |-> comments, timestamp |-> now])]
    IN  [pushed EXCEPT !.status = StatusAfterApprove(pushed)]

\* Variant of Rejected: a guard that lets only a pending request be rejected.
Rejected_pendingOnly(approval, userId, reason) ==
    IF approval.status = "pending"
    THEN [approval EXCEPT !.status = "rejected",
                          !.rejectedBy = userId,
                          !.rejectionReason = reason]
    ELSE approval

\* The request reject() leaves.
Rejected(approval, userId, reason) ==
    [approval EXCEPT !.status = "rejected",
                     !.rejectedBy = userId,
                     !.rejectionReason = reason]

\* localStorage.getItem / setItem raise (storage disabled, quota exceeded).
Unavailable == storage.status = "unavailable"

\* The value under the component's key is not the JSON the component wrote.
Corrupt == storage.status = "corrupt"

\* localStorage.setItem(key, text): the value under the key after the call,
\* `saved` being the value before it.
setItem(saved, text) == IF Unavailable THEN saved ELSE text

\* The condition of the store after a setItem(): a value that was written
\* replaces a corrupt one.
Written == IF Corrupt THEN [storage EXCEPT !.status = "ok"] ELSE storage

\* ApprovalEngine.save() has no try/catch: what a call that ends with
\* save() gives back.
SavedOrThrown(value) == IF Unavailable THEN Thrown("localStorage") ELSE Returned(value)

ApprovalInit ==
    /\ approvals = << >>
    /\ approvalStore = << >>

\* Time passes between two calls.
Tick ==
    /\ opCount < MaxApprovalOps
    /\ now' = now + 1
    /\ opCount' = opCount + 1
    /\ lastOp' = Call("tick", << >>)
    /\ ret' = Returned(Undefined)
    /\ UNCHANGED <<storage, peerEntries, qaVars, approvalVars, ledgerVars, rbacVars>>

RequestApproval ==
    \E request \in RequestInputs :
        /\ opCount < MaxApprovalOps
        /\ approvals' = Append(approvals, NewApproval(request))
        /\ approvalStore' = setItem(approvalStore, SaveApprovals(approvals'))
        /\ storage' = Written
        /\ opCount' = opCount + 1
        /\ lastOp' = Call("requestApproval", <<request>>)
        /\ ret' = SavedOrThrown(NewApproval(request).id)
        /\ UNCHANGED <<now, peerEntries, qaVars, rbacVars, ledgerVars>>

Approve ==
    \E approvalId \in ApprovalIds, userId \in Users, comments \in Comments :
        LET k == FindApproval(approvals, approvalId) IN
        /\ opCount < MaxApprovalOps
        /\ opCount' = opCount + 1
        /\ lastOp' = Call("approve", <<approvalId, userId, comments>>)
        /\ IF k = 0
           THEN /\ ret' = Thrown("Approval not found")
                /\ UNCHANGED <<storage, approvalVars>>
           ELSE /\ approvals' = [approvals EXCEPT ![k] = Approved(@, userId, comments)]
                /\ approvalStore' = setItem(approvalStore, SaveApprovals(approvals'))
                /\ storage' = Written
                /\ ret' = SavedOrThrown(Undefined)
        /\ UNCHANGED <<now, peerEntries, qaVars, rbacVars, ledgerVars>>

Reject ==
    \E approvalId \in ApprovalIds, in \in RejectInputs :
        LET k == FindApproval(approvals, approvalId) IN
        /\ opCount < MaxApprovalOps
        /\ opCount' = opCount + 1
        /\ lastOp' = Call("reject", <<approvalId, in[1], in[2]>>)
        /\ IF k = 0
           THEN /\ ret' = Thrown("Approval not found")
                /\ UNCHANGED <<storage, approvalVars>>
           ELSE /\ approvals' = [approvals EXCEPT ![k] = Rejected(@, in[1], in[2])]
                /\ approvalStore' = setItem(approvalStore, SaveApprovals(approvals'))
                /\ storage' = Written
                /\ ret' = SavedOrThrown(Undefined)
        /\ UNCHANGED <<now, peerEntries, qaVars, rbacVars, ledgerVars>>

\* null, the default of getPending()'s parameter.
Null == "null"

\* this.approvals.filter(...): the requests at the indices that pass, in order.
Kept(list, keep) ==
    LET F[i \in 0..Len(list)] ==
            IF i = 0 THEN << >>
            ELSE IF keep[i] THEN Append(F[i - 1], list[i]) ELSE F[i - 1]
    IN  F[Len(list)]

\* getPending(userId): without a user, the pending requests.  With a user,
\* a.status === 'pending' && a.requiredApprovers.includes(userId): reading
\* includes of an absent requiredApprovers raises a TypeError, which a
\* pending request without the property does.
getPending(list, userId) ==
    IF userId = Null
    THEN Returned(Kept(list, [i \in 1..Len(list) |-> list[i].status = "pending"]))
    ELSE IF \E i \in 1..Len(list) :
               list[i].status = "pending" /\ ~list[i].requiredApprovers.defined
         THEN Thrown("TypeError")
         ELSE Returned(Kept(list, [i \in 1..Len(list) |->
                                      /\ list[i].status = "pending"
                                      /\ userId \in list[i].requiredApprovers.items]))

GetPending ==
    \E userId \in {Null, "A"} :
        /\ opCount < MaxApprovalOps
        /\ opCount' = opCount + 1
        /\ lastOp' = Call("getPending", <<userId>>)
        /\ ret' = getPending(approvals, userId)
        /\ UNCHANGED <<now, peerEntries, qaVars, storage, approvalVars, ledgerVars, rbacVars>>

LedgerIdle ==
    /\ entries = << >>
    /\ peerEntries = << >>
    /\ ledgerStore = << >>
    /\ useHashing = TRUE
    /\ tampered = 0

RbacIdle ==
    /\ roles = << >>
    /\ users = << >>
    /\ rbacStore = << >>

QaIdle ==
    /\ checkpoints = << >>
    /\ qaStore = << >>
    /\ verdicts = << >>

\* localStorage works and holds what the component saved (nothing at first).
StorageOk(component) == storage = [component |-> component, status |-> "ok"]

CommonInit ==
    /\ now = 0
    /\ opCount = 0
    /\ lastOp = Call("new", << >>)
    /\ ret = Returned(Undefined)

InitApproval ==
    CommonInit /\ ApprovalInit /\ LedgerIdle /\ RbacIdle /\ QaIdle /\ StorageOk("approval")

NextApproval == Tick \/ RequestApproval \/ Approve \/ Reject \/ GetPending

SpecApproval == InitApproval /\ [][NextApproval]_vars

\* ------------------------------------------------------------------------
\* Ledger: strings
\* ------------------------------------------------------------------------
\* calculateHash() reads its input one UTF-16 code unit at a time, so the
\* strings of the ledger are sequences of character codes.

\* undefined, where a string is expected: no string holds a negative code.
undef == <<-1>>

\* x || y
OrElse(x, y) == IF x = undef \/ x = << >> THEN y ELSE x

RECURSIVE Digits(_)
\* String(n) for an integer n >= 0.
Digits(n) == IF n < 10 THEN <<48 + n>> ELSE Digits(n \div 10) \o <<48 + (n % 10)>>

\* new Date(t).toISOString() for 0 <= t < 1000: "1970-01-01T00:00:00.tttZ".
ISOString(t) ==
    <<49, 57, 55, 48, 45, 48, 49, 45, 48, 49, 84, 48, 48, 58, 48, 48, 58, 48, 48, 46>>
    \o <<48 + (t \div 100), 48 + ((t \div 10) % 10), 48 + (t % 10)>> \o <<90>>

\* new Date(s).getTime() for the timestamps above; -1 stands for NaN (an
\* invalid date), which compares false with everything.
DateOf(s) ==
    IF \E t \in 0..9 : s = ISOString(t)
    THEN CHOOSE t \in 0..9 : s = ISOString(t)
    ELSE -1

RECURSIVE EscapedRange(_, _, _)
\* str[lo..hi] with a backslash before every " and \ (the range is halved
\* at each step, which keeps the evaluation shallow).
EscapedRange(str, lo, hi) ==
    IF lo > hi THEN << >>
    ELSE IF lo = hi THEN (IF str[lo] \in {34, 92} THEN <<92, str[lo]>> ELSE <<str[lo]>>)
    ELSE LET mid == (lo + hi) \div 2
         IN  EscapedRange(str, lo, mid) \o EscapedRange(str, mid + 1, hi)

\* The body of a JSON string literal: the string itself when it holds
\* neither " nor \.
Escaped(str) ==
    IF \A i \in 1..Len(str) : str[i] \notin {34, 92}
    THEN str
    ELSE EscapedRange(str, 1, Len(str))

\* JSON.stringify of a string.
Quoted(str) == <<34>> \o Escaped(str) \o <<34>>

\* One member of a JSON object, "key":value; nothing when the value is
\* undefined (JSON.stringify leaves such a member out).
Member(key, text, present) ==
    IF present THEN <<34>> \o key \o <<34, 58>> \o text ELSE << >>

\* The members that are there, joined by commas.
Joined(members) ==
    LET J[i \in 0..Len(members)] ==
            IF i = 0 THEN << >>
            ELSE IF members[i] = << >> THEN J[i - 1]
            ELSE IF J[i - 1] = << >> THEN members[i]
            ELSE J[i - 1] \o <<44>> \o members[i]
    IN  J[Len(members)]

\* JSON.stringify({id, timestamp, action, projectId, userId, details,
\* previousHash}) of calculateHash(): members in this order.  `details` is
\* an object, held as its JSON text.
HashedText(entry) ==
    <<123>>
    \o Joined(<<
         Member(<<105, 100>>, Quoted(entry.id), entry.id # undef),
         Member(<<116, 105, 109, 101, 115, 116, 97, 109, 112>>,
                Quoted(entry.timestamp), entry.timestamp # undef),
         Member(<<97, 99, 116, 105, 111, 110>>,
                Quoted(entry.action), entry.action # undef),
         Member(<<112, 114, 111, 106, 101, 99, 116, 73, 100>>,
                Quoted(entry.projectId), entry.projectId # undef),
         Member(<<117, 115, 101, 114, 73, 100>>,
                Quoted(entry.userId), entry.userId # undef),
         Member(<<100, 101, 116, 97, 105, 108, 115>>,
                entry.details, entry.details # undef),
         Member(<<112, 114, 101, 118, 105, 111, 117, 115, 72, 97, 115, 104>>,
                Quoted(entry.previousHash), entry.previousHash # undef) >>)
    \o <<125>>

\* ------------------------------------------------------------------------
\* Ledger: the hash
\* ------------------------------------------------------------------------
\* A 32-bit integer is held as its two 16-bit halves <<high, low>> (its
\* two's complement bit pattern).

Half == 65536

\* hash = ((hash << 5) - hash) + char; hash = hash & hash.  The shift, the
\* subtraction and the addition are made on each half, the low half's
\* overflow is carried into the high half, and each half is cut to 16 bits
\* (the & that brings the sum back to 32 bits).
HashStep(h, char) ==
    << (h[1] * 32 - h[1] + ((h[2] * 32 - h[2] + char) \div Half)) % Half,
       (h[2] * 32 - h[2] + char) % Half >>

RECURSIVE HashLoop(_, _, _, _)
\* The loop of calculateHash() over str[lo..hi], entered with hash h: the
\* characters are taken in order.  The range is halved at each step, and
\* the hash after the first half is a value (`first`) before the second
\* half is entered, which keeps the evaluation shallow.
HashLoop(str, lo, hi, h) ==
    IF lo > hi THEN h
    ELSE IF lo = hi THEN HashStep(h, str[lo])
    ELSE LET mid == (lo + hi) \div 2
         IN  CHOOSE last \in { HashLoop(str, mid + 1, hi, first) :
                                   first \in {HashLoop(str, lo, mid, h)} } : TRUE

HexDigit(d) == <<48, 49, 50, 51, 52, 53, 54, 55, 56, 57, 97, 98, 99, 100, 101, 102>>[d + 1]

RECURSIVE Hex(_)
\* n.toString(16) for an integer n >= 0.
Hex(n) == IF n < 16 THEN <<HexDigit(n)>> ELSE Hex(n \div 16) \o <<HexDigit(n % 16)>>

\* The four hex digits of a half, zeros included.
Hex4(n) == <<HexDigit(n \div 4096), HexDigit((n \div 256) % 16),
             HexDigit((n \div 16) % 16), HexDigit(n % 16)>>

\* hash.toString(16) of a signed 32-bit integer: a minus sign and the
\* magnitude when the sign bit is set.
ToString16(h) ==
    LET negative == h[1] >= 32768
        m == IF negative
             THEN <<(Half - 1 - h[1] + (IF h[2] = 0 THEN 1 ELSE 0)) % Half,
                    (Half - h[2]) % Half>>
             ELSE h
        digits == IF m[1] = 0 THEN Hex(m[2]) ELSE Hex(m[1]) \o Hex4(m[2])
    IN  (IF negative THEN <<45>> ELSE << >>) \o digits

\* The hash of a string: the loop from 0, then toString(16).
HashOf(str) == ToString16(HashLoop(str, 1, Len(str), <<0, 0>>))

\* calculateHash(entry)
calculateHash(entry) == HashOf(HashedText(entry))

\* ------------------------------------------------------------------------
\* Ledger: operations
\* ------------------------------------------------------------------------

\* Calls made on one Ledger in a run.
MaxLedgerOps == 3

\* Ledger.ACTION_TYPES.QA_PASSED and .USER_LOGIN
QA_PASSED == <<81, 65, 95, 80, 65, 83, 83, 69, 68>>
USER_LOGIN == <<85, 83, 69, 82, 95, 76, 79, 71, 73, 78>>

ProjectP1 == <<80, 49>>                 \* "P1"
UserAb == <<97, 98>>                    \* "ab"
UserBC == <<98, 67>>                    \* "bC"
EmptyObject == <<123, 125>>             \* {}

\* The objects callers pass to record(): a full one, one without projectId
\* and details, and one that carries properties
\* the ledger generates itself (id "X1", timestamp "then", previousHash
\* "ee", hash "ff").
RecordInputs ==
    { [id |-> undef, timestamp |-> undef, action |-> QA_PASSED, projectId |-> ProjectP1,
       userId |-> UserAb, details |-> EmptyObject, previousHash |-> undef, hash |-> undef],
      [id |-> undef, timestamp |-> undef, action |-> USER_LOGIN, projectId |-> undef,
       userId |-> UserAb, details |-> undef, previousHash |-> undef, hash |-> undef],
      [id |-> <<88, 49>>, timestamp |-> <<116, 104, 101, 110>>, action |-> USER_LOGIN,
       projectId |-> ProjectP1, userId |-> UserBC, details |-> EmptyObject,
       previousHash |-> <<101, 101>>, hash |-> <<102, 102>>] }

\* Math.random().toString(36).substr(2, 9): "a" or "b" here.
RandomSuffixes == { <<97>>, <<98>> }

\* 'LED-' + Date.now() + '-' + Math.random().toString(36).substr(2, 9)
generateId(random) == <<76, 69, 68, 45>> \o Digits(now) \o <<45>> \o random

\* Variant of getLastHash: the genesis sentinel for every entry.
getLastHash_genesis == <<48>>

\* getLastHash(): '0' for an empty ledger, else the last entry's hash || '0'.
getLastHash ==
    IF Len(entries) = 0 THEN <<48>> ELSE OrElse(entries[Len(entries)].hash, <<48>>)

\* Variant of LedgerEntry: the hash is taken before previousHash is set.
LedgerEntry_hashFirst(entry, random) ==
    LET built == [ id           |-> IF entry.id = undef THEN generateId(random) ELSE entry.id,
                   timestamp    |-> IF entry.timestamp = undef THEN ISOString(now)
                                    ELSE entry.timestamp,
                   action       |-> entry.action,
                   projectId    |-> entry.projectId,
                   userId       |-> entry.userId,
                   details      |-> entry.details,
                   previousHash |-> undef,
                   hash         |-> entry.hash ]
    IN  IF useHashing
        THEN [built EXCEPT !.hash = calculateHash(built), !.previousHash = getLastHash]
        ELSE [built EXCEPT !.previousHash = getLastHash]

\* The entry record() builds: { id, timestamp, ...entry, previousHash }, then
\* hash when hashing is on.  The caller's properties come after id and
\* timestamp and before previousHash.
LedgerEntry(entry, random) ==
    LET built == [ id           |-> IF entry.id = undef THEN generateId(random) ELSE entry.id,
                   timestamp    |-> IF entry.timestamp = undef THEN ISOString(now)
                                    ELSE entry.timestamp,
                   action       |-> entry.action,
                   projectId    |-> entry.projectId,
                   userId       |-> entry.userId,
                   details      |-> entry.details,
                   previousHash |-> getLastHash,
                   hash         |-> entry.hash ]
    IN  IF useHashing THEN [built EXCEPT !.hash = calculateHash(built)] ELSE built

\* save(): JSON.stringify(this.entries) into localStorage.  Every property
\* of an entry is a string or a plain object; a property that is undefined
\* is left out and reads as undefined again after JSON.parse.
SaveEntries(list) == list

\* The check verify() makes of entry i: "invalid hash", "broken chain" or "ok".
CheckEntry(list, i) ==
    IF list[i].hash # calculateHash([list[i] EXCEPT !.hash = undef])
    THEN "invalid hash"
    ELSE IF i > 1 /\ list[i].previousHash # list[i - 1].hash
         THEN "broken chain"
         ELSE "ok"

\* verify(): the first entry that fails a check.  `index` is the position
\* the message names (from 0).
verify(list) ==
    IF ~useHashing THEN [valid |-> TRUE, message |-> "Hashing disabled", index |-> -1]
    ELSE IF \E i \in 1..Len(list) : CheckEntry(list, i) # "ok"
         THEN LET i == CHOOSE i \in 1..Len(list) :
                          /\ CheckEntry(list, i) # "ok"
                          /\ \A j \in 1..(i - 1) : CheckEntry(list, j) = "ok"
              IN  [valid |-> FALSE, message |-> CheckEntry(list, i), index |-> i - 1]
         ELSE [valid |-> TRUE, message |-> "Ledger integrity verified", index |-> -1]

\* Array.prototype.filter: the elements that pass, in order.  keep[i] tells
\* whether the callback returns true for list[i].
Filter(list, keep) ==
    LET F[i \in 0..Len(list)] ==
            IF i = 0 THEN << >>
            ELSE IF keep[i] THEN Append(F[i - 1], list[i]) ELSE F[i - 1]
    IN  F[Len(list)]

LedgerInit ==
    /\ entries = << >>
    /\ peerEntries = << >>
    /\ ledgerStore = << >>
    /\ useHashing \in BOOLEAN
    /\ tampered = 0

\* Time passes between two calls.
LedgerTick ==
    /\ opCount < MaxLedgerOps
    /\ now' = now + 1
    /\ opCount' = opCount + 1
    /\ lastOp' = Call("tick", << >>)
    /\ ret' = Returned(Undefined)
    /\ UNCHANGED <<storage, peerEntries, qaVars, approvalVars, ledgerVars, rbacVars>>

\* Variant of Recorded: the new entry goes to the front.
Recorded_unshift(entry, random) == <<LedgerEntry(entry, random)>> \o entries

\* this.entries after record(entry): the new entry pushed.
Recorded(entry, random) == Append(entries, LedgerEntry(entry, random))

Record ==
    /\ opCount < MaxLedgerOps
    /\ \E entry \in RecordInputs, random \in RandomSuffixes :
          \E after \in {Recorded(entry, random)} :
              /\ entries' = after
              /\ ledgerStore' = setItem(ledgerStore, SaveEntries(after))
              /\ storage' = Written
              /\ opCount' = opCount + 1
              /\ lastOp' = Call("record", <<entry>>)
              /\ ret' = Returned(after[Len(after)].id)
              /\ UNCHANGED <<now, peerEntries, qaVars, rbacVars, approvalVars, useHashing, tampered>>

Clear ==
    /\ opCount < MaxLedgerOps
    /\ entries' = << >>
    /\ ledgerStore' = setItem(ledgerStore, SaveEntries(entries'))
    /\ storage' = Written
    /\ opCount' = opCount + 1
    /\ lastOp' = Call("clear", << >>)
    /\ ret' = Returned(Undefined)
    /\ UNCHANGED <<now, peerEntries, qaVars, rbacVars, approvalVars, useHashing, tampered>>

\* A call that only reads the ledger: it hands back `value`.
Read(name, args, value) ==
    /\ opCount < MaxLedgerOps
    /\ opCount' = opCount + 1
    /\ lastOp' = Call(name, args)
    /\ ret' = Returned(value)
    /\ UNCHANGED <<now, peerEntries, qaVars, storage, rbacVars, approvalVars, ledgerVars>>

getHistory(projectId) ==
    Filter(entries, [i \in 1..Len(entries) |-> entries[i].projectId = projectId])

getByAction(action) ==
    Filter(entries, [i \in 1..Len(entries) |-> entries[i].action = action])

getByUser(userId) ==
    Filter(entries, [i \in 1..Len(entries) |-> entries[i].userId = userId])

\* entryDate >= startDate && entryDate <= endDate
getByDateRange(startDate, endDate) ==
    Filter(entries, [i \in 1..Len(entries) |->
                        /\ DateOf(entries[i].timestamp) # -1
                        /\ DateOf(entries[i].timestamp) >= startDate
                        /\ DateOf(entries[i].timestamp) <= endDate])

\* export(), before JSON.stringify
export ==
    [exportDate |-> ISOString(now), entries |-> entries, integrity |-> verify(entries)]

GetHistory ==
    /\ opCount < MaxLedgerOps
    /\ \E projectId \in {ProjectP1} :
          Read("getHistory", <<projectId>>, getHistory(projectId))

GetByAction ==
    /\ opCount < MaxLedgerOps
    /\ \E action \in {USER_LOGIN} :
          Read("getByAction", <<action>>, getByAction(action))

GetByUser ==
    /\ opCount < MaxLedgerOps
    /\ \E userId \in {UserAb} :
          Read("getByUser", <<userId>>, getByUser(userId))

GetByDateRange ==
    /\ opCount < MaxLedgerOps
    /\ \E startDate \in {0, 1}, endDate \in {1} :
          Read("getByDateRange", <<startDate, endDate>>, getByDateRange(startDate, endDate))

Verify ==
    /\ opCount < MaxLedgerOps
    /\ Read("verify", << >>, verify(entries))

Export ==
    /\ opCount < MaxLedgerOps
    /\ Read("export", << >>, export)

RECURSIVE DoubledRange(_, _, _)
\* str[lo..hi] with every " doubled.
DoubledRange(str, lo, hi) ==
    IF lo > hi THEN << >>
    ELSE IF lo = hi THEN (IF str[lo] = 34 THEN <<34, 34>> ELSE <<str[lo]>>)
    ELSE LET mid == (lo + hi) \div 2
         IN  DoubledRange(str, lo, mid) \o DoubledRange(str, mid + 1, hi)

\* String(cell).replace(/"/g, '""')
DoubledQuotes(str) ==
    IF \A i \in 1..Len(str) : str[i] # 34 THEN str ELSE DoubledRange(str, 1, Len(str))

\* One CSV cell: "String(cell)" with every " doubled.

CsvCell(cell) ==
    LET text == IF cell = undef
                THEN <<117, 110, 100, 101, 102, 105, 110, 101, 100>>  \* String(undefined)
                ELSE cell
    IN  <<34>> \o DoubledQuotes(text) \o <<34>>

\* The row exportCSV() writes for an entry.
CsvRow(e) ==
    CsvCell(e.timestamp) \o <<44>> \o CsvCell(e.action) \o <<44>>
    \o CsvCell(OrElse(e.projectId, << >>)) \o <<44>>
    \o CsvCell(OrElse(e.userId, << >>)) \o <<44>>
    \o CsvCell(OrElse(e.details, EmptyObject)) \o <<44>>
    \o CsvCell(OrElse(e.hash, << >>))

\* exportCSV(): '' for an empty ledger, else the header and one row per
\* entry, joined by newlines.
exportCSV(list) ==
    LET header == <<116, 105, 109, 101, 115, 116, 97, 109, 112, 44,
                    97, 99, 116, 105, 111, 110, 44,
                    112, 114, 111, 106, 101, 99, 116, 73, 100, 44,
                    117, 115, 101, 114, 73, 100, 44,
                    100, 101, 116, 97, 105, 108, 115, 44, 104, 97, 115, 104>>
        Rows[i \in 0..Len(list)] ==
            IF i = 0 THEN header ELSE Rows[i - 1] \o <<10>> \o CsvRow(list[i])
    IN  IF Len(list) = 0 THEN << >> ELSE Rows[Len(list)]

ExportCSV ==
    /\ opCount < MaxLedgerOps
    /\ Read("exportCSV", << >>, exportCSV(entries))

ApprovalIdle ==
    /\ approvals = << >>
    /\ approvalStore = << >>

InitLedger ==
    CommonInit /\ LedgerInit /\ ApprovalIdle /\ RbacIdle /\ QaIdle /\ StorageOk("ledger")

NextLedger ==
    \/ LedgerTick \/ Record \/ Clear
    \/ GetHistory \/ GetByAction \/ GetByUser \/ GetByDateRange
    \/ Verify \/ Export \/ ExportCSV

SpecLedger == InitLedger /\ [][NextLedger]_vars

\* A ledger whose entries are written from outside: `entries` is an ordinary
\* property of the Ledger object, and the entries are ordinary objects.
\* One field of one entry is overwritten and the entry's hash is left as it
\* was (or the hash itself is overwritten); verify() is called afterwards.
TamperInputs ==
    { <<"userId", UserAb>>, <<"userId", UserBC>>, <<"userId", <<122>>>>,
      <<"action", QA_PASSED>>, <<"hash", <<48>>>> }

\* entries[i][field] = value
Overwritten(e, field, value) ==
    CASE field = "userId" -> [e EXCEPT !.userId = value]
      [] field = "action" -> [e EXCEPT !.action = value]
      [] field = "hash"   -> [e EXCEPT !.hash = value]

Tamper ==
    /\ opCount < MaxLedgerOps
    /\ tampered = 0
    /\ \E i \in 1..Len(entries), change \in TamperInputs :
          /\ Overwritten(entries[i], change[1], change[2]) # entries[i]
          /\ entries' = [entries EXCEPT ![i] = Overwritten(entries[i], change[1], change[2])]
          /\ tampered' = i
          /\ opCount' = opCount + 1
          /\ lastOp' = Call("tamper", <<i, change[1], change[2]>>)
          /\ ret' = Returned(Undefined)
          /\ UNCHANGED <<now, peerEntries, qaVars, storage, rbacVars, approvalVars, ledgerStore, useHashing>>

\* record() and the other calls build the ledger; it is tampered with once;
\* verify() follows.
NextLedgerTamper ==
    \/ (tampered = 0 /\ NextLedger)
    \/ Tamper
    \/ (tampered # 0 /\ Verify)

SpecLedgerTamper == InitLedger /\ [][NextLedgerTamper]_vars

\* The edits made by someone who also rewrites the edited entry's hash.
ForgeInputs ==
    { <<"userId", UserAb>>, <<"userId", UserBC>>, <<"action", QA_PASSED>> }

\* entry.hash = calculateHash({ ...entry, hash: undefined }), the value
\* verify() expects.
Rehashed(e) == [e EXCEPT !.hash = calculateHash([e EXCEPT !.hash = undef])]

\* One field of an entry that is not the last is overwritten from outside
\* and the entry's hash is recomputed to match; no other entry is touched.
\* It is not a call of the ledger, and happens once.
Forge ==
    /\ tampered = 0
    /\ \E i \in 1..(Len(entries) - 1), change \in ForgeInputs :
          /\ Overwritten(entries[i], change[1], change[2]) # entries[i]
          /\ entries' = [entries EXCEPT
                             ![i] = Rehashed(Overwritten(entries[i], change[1], change[2]))]
          /\ tampered' = i
          /\ lastOp' = Call("forge", <<i, change[1], change[2]>>)
          /\ ret' = Returned(Undefined)
          /\ UNCHANGED <<now, peerEntries, qaVars, opCount, storage, rbacVars, approvalVars, ledgerStore,
                         useHashing>>

NextLedgerForge ==
    \/ (tampered = 0 /\ NextLedger)
    \/ Forge
    \/ (tampered # 0 /\ Verify)

SpecLedgerForge == InitLedger /\ [][NextLedgerForge]_vars

\* ------------------------------------------------------------------------
\* RBAC
\* ------------------------------------------------------------------------

\* Calls made on one RBAC object in a run.
MaxRbacOps == 5

Levels == {"view", "edit", "approve", "admin"}
\* 'constructor' is never defined as a role: it is the name of a property
\* every plain object inherits from Object.prototype.
RoleIds == {"admin", "superuser", "fin", "pm", "constructor"}
ObjectPrototype == {"constructor"}
\* 'ghost' is never assigned a role: it stays unknown.
UserIds == {"u1", "u2", "ghost"}
\* '0' is also the name of a property of a non-empty array.
Resources == {"budget", "scope", "0"}
\* 'null' is the default of can()'s fourth parameter.
ResourceIds == {"null", "i1"}

\* What a role holds at a level.  A string is its sequence of characters, a
\* list its sequence of strings, a map its set of entries; an entry of a
\* map is '*' (all) or a list of instance ids.
Missing == [kind |-> "undefined", text |-> << >>, items |-> << >>, map |-> {}]
Str(text) == [kind |-> "string", text |-> text, items |-> << >>, map |-> {}]
ListOf(items) == [kind |-> "array", text |-> << >>, items |-> items, map |-> {}]
MapOf(map) == [kind |-> "object", text |-> << >>, items |-> << >>, map |-> map]
MapEntry(key, all, ids) == [key |-> key, all |-> all, ids |-> ids]

Wildcard == Str(<<"*">>)

\* RBAC.ROLE_TEMPLATES.FINANCE, with the resource types of the model.
FINANCE ==
    [view |-> Wildcard, edit |-> ListOf(<<"budget", "funding">>),
     approve |-> ListOf(<<"payment">>), admin |-> ListOf(<< >>)]

\* RBAC.ROLE_TEMPLATES.AUDITOR
AUDITOR ==
    [view |-> Wildcard, edit |-> ListOf(<< >>), approve |-> ListOf(<< >>),
     admin |-> ListOf(<< >>)]

\* A role whose view level is a map from resource type to '*' or to
\* instance ids, and whose edit level is a list that holds '*'.
MAPPED ==
    [view |-> MapOf({MapEntry("budget", TRUE, << >>), MapEntry("scope", FALSE, <<"i1">>)}),
     edit |-> ListOf(<<"scope", "*">>), approve |-> Missing, admin |-> Missing]

\* A role whose levels are strings other than '*', and the empty string.
WORDS ==
    [view |-> Str(<<"b", "*">>), edit |-> Str(<<"b">>), approve |-> Str(<< >>),
     admin |-> Missing]

\* RBAC.ROLE_TEMPLATES.QA_INSPECTOR, with the resource types of the model:
\* a list at the view level.
QA_INSPECTOR ==
    [view |-> ListOf(<<"scope", "qa-reports">>), edit |-> ListOf(<<"qa-report">>),
     approve |-> ListOf(<<"qa-gate">>), admin |-> ListOf(<< >>)]

\* A role that defines no level.
BARE == [view |-> Missing, edit |-> Missing, approve |-> Missing, admin |-> Missing]

\* The calls of defineRole() made: role id and permissions object.
DefineInputs ==
    { <<"admin", BARE>>, <<"superuser", MAPPED>>, <<"fin", FINANCE>>,
      <<"fin", AUDITOR>>, <<"pm", MAPPED>>, <<"pm", WORDS>>, <<"pm", QA_INSPECTOR>> }

\* this.roles[roleId] of a role never defined.
NoRole ==
    [defined |-> FALSE, id |-> "", view |-> Missing, edit |-> Missing,
     approve |-> Missing, admin |-> Missing, createdAt |-> << >>]

\* this.roles[roleId] of a role never defined whose id names a property of
\* Object.prototype: the inherited value (the function Object), which is
\* truthy and has none of the levels.
InheritedRole ==
    [defined |-> TRUE, id |-> "", view |-> Missing, edit |-> Missing,
     approve |-> Missing, admin |-> Missing, createdAt |-> << >>]

\* this.roles[roleId]: the role defined under that id, else what the plain
\* object this.roles inherits under that name, else undefined.
RoleAt(rs, roleId) ==
    IF rs[roleId].defined THEN rs[roleId]
    ELSE IF roleId \in ObjectPrototype THEN InheritedRole
    ELSE NoRole

\* this.users[userId] of a user never given a role.
NoUser == [known |-> FALSE, id |-> "", roles |-> << >>]

\* Variant of RoleDefined: a role that is already defined keeps its edit level.
RoleDefined_merge(roleId, permissions) ==
    [defined |-> TRUE, id |-> roleId, view |-> permissions.view,
     edit |-> IF roles[roleId].defined THEN roles[roleId].edit ELSE permissions.edit,
     approve |-> permissions.approve,
     admin |-> permissions.admin, createdAt |-> ISOString(now)]

\* { id: roleId, ...permissions, createdAt: new Date().toISOString() }
RoleDefined(roleId, permissions) ==
    [defined |-> TRUE, id |-> roleId, view |-> permissions.view,
     edit |-> permissions.edit, approve |-> permissions.approve,
     admin |-> permissions.admin, createdAt |-> ISOString(now)]

\* Variant of SaveRbac: the users are not written.
SaveRbac_rolesOnly(rs, us) == [roles |-> rs, users |-> [u \in UserIds |-> NoUser]]

\* save(): JSON.stringify({ roles, users }) into localStorage.  Roles and
\* users hold strings, arrays and plain objects only; a level a role does
\* not define is left out and reads as undefined again.
SaveRbac(rs, us) == [roles |-> rs, users |-> us]

\* Array.prototype.includes
Includes(list, x) == \E i \in 1..Len(list) : list[i] = x

\* !perms: undefined and the empty string are falsy; '0' is not among the
\* strings here.
Falsy(perms) ==
    \/ perms.kind = "undefined"
    \/ perms.kind = "string" /\ perms.text = << >>

\* perms.includes('*') of a string (a substring test) or of an array.
IncludesStar(perms) ==
    IF perms.kind = "string" THEN Includes(perms.text, "*") ELSE Includes(perms.items, "*")

\* perms[resource] of an array: an element when resource is an index (only
\* '0' among the resources here), else undefined.  perms[resource] of a map:
\* its entry.  The value is told by its kind: 'string' with all = TRUE for
\* '*', 'array' for a list of ids.
Property(perms, resource) ==
    IF perms.kind = "array"
    THEN IF resource = "0" /\ Len(perms.items) > 0
         THEN [kind |-> "string", all |-> perms.items[1] = "*", ids |-> << >>]
         ELSE [kind |-> "undefined", all |-> FALSE, ids |-> << >>]
    ELSE IF \E e \in perms.map : e.key = resource
         THEN LET e == CHOOSE e \in perms.map : e.key = resource
              IN  IF e.all THEN [kind |-> "string", all |-> TRUE, ids |-> << >>]
                  ELSE [kind |-> "array", all |-> FALSE, ids |-> e.ids]
         ELSE [kind |-> "undefined", all |-> FALSE, ids |-> << >>]

\* Variant of Perms: the view level, whatever level is asked for.
Perms_view(role, permission) == role["view"]

\* role[permission]
Perms(role, permission) == role[permission]

\* One turn of can()'s loop over the user's roles: "true" when the role
\* grants access (return true), "next" when the loop goes on, "TypeError"
\* when perms.includes is not a function (perms is a plain object).
RoleOutcome(role, permission, resource, resourceId) ==
    IF ~role.defined THEN "next"
    ELSE LET perms == Perms(role, permission)
         IN  IF Falsy(perms) THEN "next"
             ELSE IF perms = Wildcard THEN "true"
             ELSE IF perms.kind = "object" THEN "TypeError"
             ELSE IF IncludesStar(perms) THEN "true"
             ELSE IF perms.kind = "array" /\ Includes(perms.items, resource) THEN "true"
             ELSE IF perms.kind \in {"array", "object"}
                     /\ Property(perms, resource).kind # "undefined"
                  THEN IF Property(perms, resource).all THEN "true"
                       ELSE IF /\ Property(perms, resource).kind = "array"
                               /\ Includes(Property(perms, resource).ids, resourceId)
                            THEN "true"
                            ELSE "next"
                  ELSE "next"

RECURSIVE CheckRoles(_, _, _, _, _, _)
\* for (const roleId of user.roles) ..., from the k-th role on; false when
\* the loop ends.
CheckRoles(rs, held, k, permission, resource, resourceId) ==
    IF k > Len(held) THEN Returned(FALSE)
    ELSE LET outcome == RoleOutcome(RoleAt(rs, held[k]), permission, resource, resourceId)
         IN  IF outcome = "true" THEN Returned(TRUE)
             ELSE IF outcome = "TypeError" THEN Thrown("TypeError")
             ELSE CheckRoles(rs, held, k + 1, permission, resource, resourceId)

\* Variant of can: only 'superuser' passes the superuser check.
can_superuserOnly(rs, us, userId, permission, resource, resourceId) ==
    IF ~us[userId].known THEN Returned(FALSE)
    ELSE IF Includes(us[userId].roles, "superuser") THEN Returned(TRUE)
    ELSE CheckRoles(rs, us[userId].roles, 1, permission, resource, resourceId)

\* can(userId, permission, resource, resourceId) on an RBAC object whose
\* roles are rs and whose users are us.
can(rs, us, userId, permission, resource, resourceId) ==
    IF ~us[userId].known THEN Returned(FALSE)
    ELSE IF Includes(us[userId].roles, "superuser") \/ Includes(us[userId].roles, "admin")
         THEN Returned(TRUE)
         ELSE CheckRoles(rs, us[userId].roles, 1, permission, resource, resourceId)

\* Variant of Without: nothing is kept.
Without_all(list, roleId) == << >>

\* roles.filter(r => r !== roleId)
Without(list, roleId) ==
    LET F[i \in 0..Len(list)] ==
            IF i = 0 THEN << >>
            ELSE IF list[i] # roleId THEN Append(F[i - 1], list[i]) ELSE F[i - 1]
    IN  F[Len(list)]

\* Variant of Assigned: the role is pushed whether or not it is held.
Assigned_push(us, userId, roleId) ==
    LET user == IF us[userId].known THEN us[userId]
                ELSE [known |-> TRUE, id |-> userId, roles |-> << >>]
    IN  [us EXCEPT ![userId] = [user EXCEPT !.roles = Append(@, roleId)]]

\* this.users after assignRole(userId, roleId) with a defined role.
Assigned(us, userId, roleId) ==
    LET user == IF us[userId].known THEN us[userId]
                ELSE [known |-> TRUE, id |-> userId, roles |-> << >>]
    IN  [us EXCEPT ![userId] =
            IF Includes(user.roles, roleId) THEN user
            ELSE [user EXCEPT !.roles = Append(@, roleId)]]

RbacInit ==
    /\ roles = [r \in RoleIds |-> NoRole]
    /\ users = [u \in UserIds |-> NoUser]
    /\ rbacStore = SaveRbac(roles, users)

DefineRole ==
    /\ opCount < MaxRbacOps
    /\ \E in \in DefineInputs :
          /\ roles' = [roles EXCEPT ![in[1]] = RoleDefined(in[1], in[2])]
          /\ rbacStore' = setItem(rbacStore, SaveRbac(roles', users))
          /\ storage' = Written
          /\ lastOp' = Call("defineRole", in)
          /\ ret' = Returned(Undefined)
    /\ opCount' = opCount + 1
    /\ UNCHANGED <<now, peerEntries, qaVars, users, approvalVars, ledgerVars>>

\* The calls of assignRole() made: user id and role id.
AssignInputs ==
    ({"u1"} \X {"admin", "superuser", "fin", "pm"})
    \cup ({"u2"} \X {"fin", "pm", "constructor"})

AssignRole ==
    /\ opCount < MaxRbacOps
    /\ \E userId \in {"u1", "u2"}, roleId \in RoleIds :
          /\ <<userId, roleId>> \in AssignInputs
          /\ lastOp' = Call("assignRole", <<userId, roleId>>)
          /\ IF ~RoleAt(roles, roleId).defined
             THEN /\ ret' = Thrown("Role does not exist")
                  /\ UNCHANGED <<users, rbacStore, storage>>
             ELSE /\ users' = Assigned(users, userId, roleId)
                  /\ rbacStore' = setItem(rbacStore, SaveRbac(roles, users'))
                  /\ storage' = Written
                  /\ ret' = Returned(Undefined)
    /\ opCount' = opCount + 1
    /\ UNCHANGED <<now, peerEntries, qaVars, roles, approvalVars, ledgerVars>>

RemoveRole ==
    /\ opCount < MaxRbacOps
    /\ \E userId \in {"u1", "ghost"}, roleId \in {"fin", "pm"} :
          /\ lastOp' = Call("removeRole", <<userId, roleId>>)
          /\ IF users[userId].known
             THEN /\ users' = [users EXCEPT ![userId].roles = Without(@, roleId)]
                  /\ rbacStore' = setItem(rbacStore, SaveRbac(roles, users'))
                  /\ storage' = Written
             ELSE UNCHANGED <<users, rbacStore, storage>>
          /\ ret' = Returned(Undefined)
    /\ opCount' = opCount + 1
    /\ UNCHANGED <<now, peerEntries, qaVars, roles, approvalVars, ledgerVars>>

Can ==
    /\ opCount < MaxRbacOps
    /\ \E userId \in {"u1", "ghost"}, permission \in {"view", "edit"},
          resource \in {"budget", "scope"}, resourceId \in {"i1"} :
          /\ userId = "ghost" => (permission = "view" /\ resource = "budget")
          /\ lastOp' = Call("can", <<userId, permission, resource, resourceId>>)
          /\ ret' = can(roles, users, userId, permission, resource, resourceId)
    /\ opCount' = opCount + 1
    /\ UNCHANGED <<now, peerEntries, qaVars, storage, approvalVars, ledgerVars, rbacVars>>

\* An item of the data passed to filterByPermission(): a property that is
\* absent reads as undefined.
Item(id, type, resourceType) == [id |-> id, type |-> type, resourceType |-> resourceType]

\* The data arrays filterByPermission() is called with: items that carry
\* their resource type as `type`, as `resourceType`, as an empty `type`, or
\* not at all.
DataInputs ==
    { << Item("i1", "budget", Undefined), Item("i2", "scope", Undefined),
         Item("i3", Undefined, Undefined) >>,
      << Item("i1", Undefined, "budget"), Item("i2", "", "scope") >> }

\* Variant of ItemType: 'project' for every item.
ItemType_project(item) == "project"

\* item.type || 'project': undefined and the empty string are falsy.
ItemType(item) == IF item.type \in {Undefined, ""} THEN "project" ELSE item.type

\* filterByPermission(userId, data, permission = 'view'): data.filter with
\* can() as the test.  An error can() raises on an item leaves filter and
\* filterByPermission.
filterByPermission(rs, us, userId, data, permission) ==
    LET level == IF permission = Undefined THEN "view" ELSE permission
        answer == [i \in 1..Len(data) |->
                      can(rs, us, userId, level, ItemType(data[i]), data[i].id)]
    IN  IF \E i \in 1..Len(data) : answer[i].error
        THEN Thrown("TypeError")
        ELSE Returned(Filter(data, [i \in 1..Len(data) |-> answer[i].value]))

FilterByPermission ==
    /\ opCount < MaxRbacOps
    /\ \E userId \in {"u1"}, data \in DataInputs, permission \in {Undefined, "edit"} :
          /\ lastOp' = Call("filterByPermission", <<userId, data, permission>>)
          /\ ret' = filterByPermission(roles, users, userId, data, permission)
    /\ opCount' = opCount + 1
    /\ UNCHANGED <<now, peerEntries, qaVars, storage, approvalVars, ledgerVars, rbacVars>>

\* '***RESTRICTED***'
Sentinel == "***RESTRICTED***"

\* The record and the field lists maskFields() is called with; the record
\* has no 'scope' field.
MaskedRecord == [budget |-> "100", note |-> "n"]
SensitiveInputs == { <<"budget", "scope">>, <<"note">> }

\* Variant of Denied: every listed field.
Denied_all(rs, us, userId, sensitiveFields) ==
    { sensitiveFields[k] : k \in 1..Len(sensitiveFields) }

\* The listed fields for which !this.can(userId, 'view', field) holds.
Denied(rs, us, userId, sensitiveFields) ==
    { sensitiveFields[k] : k \in { j \in 1..Len(sensitiveFields) :
          ~can(rs, us, userId, "view", sensitiveFields[j], Null).value } }

\* maskFields(userId, data, sensitiveFields): masked = { ...data }, then
\* masked[field] = '***RESTRICTED***' for every listed field that can()
\* denies, whether data has the field or not.  An error can() raises leaves
\* maskFields.
maskFields(rs, us, userId, data, sensitiveFields) ==
    IF \E k \in 1..Len(sensitiveFields) :
           can(rs, us, userId, "view", sensitiveFields[k], Null).error
    THEN Thrown("TypeError")
    ELSE Returned([f \in DOMAIN data \cup Denied(rs, us, userId, sensitiveFields) |->
                      IF f \in Denied(rs, us, userId, sensitiveFields) THEN Sentinel
                      ELSE data[f]])

MaskFields ==
    /\ opCount < MaxRbacOps
    /\ \E userId \in {"u1"}, data \in {MaskedRecord}, sensitiveFields \in SensitiveInputs :
          /\ lastOp' = Call("maskFields", <<userId, data, sensitiveFields>>)
          /\ ret' = maskFields(roles, users, userId, data, sensitiveFields)
    /\ opCount' = opCount + 1
    /\ UNCHANGED <<now, peerEntries, qaVars, storage, approvalVars, ledgerVars, rbacVars>>

\* Set.prototype.add, on a Set kept as the sequence of its values in
\* insertion order.
Added(set, value) == IF Includes(set, value) THEN set ELSE Append(set, value)

\* role[perm].forEach(r => aggregated[perm].add(r))
AddedEach(set, items) ==
    LET F[i \in 0..Len(items)] == IF i = 0 THEN set ELSE Added(F[i - 1], items[i])
    IN  F[Len(items)]

\* What one role's level adds to the aggregate: '*' for the string '*', the
\* elements of an array, nothing for any other value.
WithRole(set, perms) ==
    IF Falsy(perms) THEN set
    ELSE IF perms = Wildcard THEN Added(set, "*")
    ELSE IF perms.kind = "array" THEN AddedEach(set, perms.items)
    ELSE set

\* aggregated[perm] after the loop over user.roles.
Aggregated(rs, roleList, perm) ==
    LET F[i \in 0..Len(roleList)] ==
            IF i = 0 THEN << >>
            ELSE IF ~RoleAt(rs, roleList[i]).defined THEN F[i - 1]
            ELSE WithRole(F[i - 1], RoleAt(rs, roleList[i])[perm])
    IN  F[Len(roleList)]

\* getUserPermissions(userId): {} for an unknown user (empty = TRUE), else
\* the four arrays.
getUserPermissions(rs, us, userId) ==
    IF ~us[userId].known
    THEN [empty |-> TRUE, view |-> << >>, edit |-> << >>, approve |-> << >>, admin |-> << >>]
    ELSE [empty   |-> FALSE,
          view    |-> Aggregated(rs, us[userId].roles, "view"),
          edit    |-> Aggregated(rs, us[userId].roles, "edit"),
          approve |-> Aggregated(rs, us[userId].roles, "approve"),
          admin   |-> Aggregated(rs, us[userId].roles, "admin")]

GetUserPermissions ==
    /\ opCount < MaxRbacOps
    /\ \E userId \in {"u1", "ghost"} :
          /\ lastOp' = Call("getUserPermissions", <<userId>>)
          /\ ret' = Returned(getUserPermissions(roles, users, userId))
    /\ opCount' = opCount + 1
    /\ UNCHANGED <<now, peerEntries, qaVars, storage, approvalVars, ledgerVars, rbacVars>>

InitRbac ==
    CommonInit /\ RbacInit /\ ApprovalIdle /\ LedgerIdle /\ QaIdle /\ StorageOk("rbac")

NextRbac ==
    \/ DefineRole \/ AssignRole \/ RemoveRole \/ Can \/ FilterByPermission
    \/ MaskFields \/ GetUserPermissions

SpecRbac == InitRbac /\ [][NextRbac]_vars

\* ------------------------------------------------------------------------
\* QAGates
\* ------------------------------------------------------------------------

MaxQaOps == 4

\* The project and stage pairs the calls name.
Pairs == { <<"CPF-001", "hea">>, <<"CPF-001", "install">>, <<"CPF-002", "hea">> }

\* The objects create() is called with: project, stage, and the status the
\* caller's object carries (undefined when it carries none).
CreateInputs ==
    { [projectId |-> pair[1], stage |-> pair[2], status |-> Undefined] : pair \in Pairs }
    \cup { [projectId |-> "CPF-001", stage |-> "hea", status |-> "passed"] }

\* The reasons fail() is called with.
Reasons == {"leak"}

\* A time that was never set.
Never == -1

\* { id: 'QA-' + Date.now(), ...cp, status: 'pending', createdAt }: the
\* status the caller gave is replaced.
NewCheckpoint(cp) ==
    [id |-> now, projectId |-> cp.projectId, stage |-> cp.stage, status |-> "pending",
     createdAt |-> now, passedAt |-> Never, failReason |-> Undefined, failedAt |-> Never]

\* Variant of FindCheckpoint: the last matching checkpoint.
FindCheckpoint_last(list, projectId, stage) ==
    IF \E i \in 1..Len(list) : list[i].projectId = projectId /\ list[i].stage = stage
    THEN CHOOSE i \in 1..Len(list) :
             /\ list[i].projectId = projectId /\ list[i].stage = stage
             /\ \A j \in (i + 1)..Len(list) :
                    ~(list[j].projectId = projectId /\ list[j].stage = stage)
    ELSE 0

\* checkpoints.find(c => c.projectId === projectId && c.stage === stage):
\* the index of the first match, 0 when there is none.
FindCheckpoint(list, projectId, stage) ==
    IF \E i \in 1..Len(list) : list[i].projectId = projectId /\ list[i].stage = stage
    THEN CHOOSE i \in 1..Len(list) :
             /\ list[i].projectId = projectId /\ list[i].stage = stage
             /\ \A j \in 1..(i - 1) :
                    ~(list[j].projectId = projectId /\ list[j].stage = stage)
    ELSE 0

\* checkpoints.some(c => ... && c.status === 'passed')
isPassed(list, projectId, stage) ==
    \E i \in 1..Len(list) :
        /\ list[i].projectId = projectId
        /\ list[i].stage = stage
        /\ list[i].status = "passed"

QaInit ==
    /\ checkpoints = << >>
    /\ qaStore = << >>
    /\ verdicts = [pair \in Pairs |-> "none"]

QaTick ==
    /\ opCount < MaxQaOps
    /\ now' = now + 1
    /\ opCount' = opCount + 1
    /\ lastOp' = Call("tick", << >>)
    /\ ret' = Returned(Undefined)
    /\ UNCHANGED <<storage, peerEntries, qaVars, approvalVars, ledgerVars, rbacVars>>

Create ==
    /\ opCount < MaxQaOps
    /\ \E cp \in CreateInputs :
          /\ checkpoints' = Append(checkpoints, NewCheckpoint(cp))
          /\ lastOp' = Call("create", <<cp>>)
    /\ qaStore' = setItem(qaStore, checkpoints')
    /\ storage' = Written
    /\ ret' = SavedOrThrown(Undefined)
    /\ opCount' = opCount + 1
    /\ UNCHANGED <<now, peerEntries, verdicts, approvalVars, ledgerVars, rbacVars>>

Pass ==
    /\ opCount < MaxQaOps
    /\ \E pair \in Pairs :
          LET k == FindCheckpoint(checkpoints, pair[1], pair[2]) IN
          /\ lastOp' = Call("pass", pair)
          /\ IF k = 0
             THEN /\ ret' = Returned(Undefined)
                  /\ UNCHANGED <<storage, qaVars>>
             ELSE /\ checkpoints' = [checkpoints EXCEPT ![k].status = "passed",
                                                        ![k].passedAt = now]
                  /\ verdicts' = [verdicts EXCEPT ![pair] = "pass"]
                  /\ qaStore' = setItem(qaStore, checkpoints')
                  /\ storage' = Written
                  /\ ret' = SavedOrThrown(Undefined)
    /\ opCount' = opCount + 1
    /\ UNCHANGED <<now, peerEntries, approvalVars, ledgerVars, rbacVars>>

Fail ==
    /\ opCount < MaxQaOps
    /\ \E pair \in Pairs, reason \in Reasons :
          LET k == FindCheckpoint(checkpoints, pair[1], pair[2]) IN
          /\ lastOp' = Call("fail", <<pair[1], pair[2], reason>>)
          /\ IF k = 0
             THEN /\ ret' = Returned(Undefined)
                  /\ UNCHANGED <<storage, qaVars>>
             ELSE /\ checkpoints' = [checkpoints EXCEPT ![k].status = "failed",
                                                        ![k].failReason = reason,
                                                        ![k].failedAt = now]
                  /\ verdicts' = [verdicts EXCEPT ![pair] = "fail"]
                  /\ qaStore' = setItem(qaStore, checkpoints')
                  /\ storage' = Written
                  /\ ret' = SavedOrThrown(Undefined)
    /\ opCount' = opCount + 1
    /\ UNCHANGED <<now, peerEntries, approvalVars, ledgerVars, rbacVars>>

IsPassed ==
    /\ opCount < MaxQaOps
    /\ \E pair \in Pairs :
          /\ lastOp' = Call("isPassed", pair)
          /\ ret' = Returned(isPassed(checkpoints, pair[1], pair[2]))
    /\ opCount' = opCount + 1
    /\ UNCHANGED <<now, peerEntries, storage, qaVars, approvalVars, ledgerVars, rbacVars>>

InitQa ==
    CommonInit /\ QaInit /\ ApprovalIdle /\ LedgerIdle /\ RbacIdle /\ StorageOk("qa")

NextQa == QaTick \/ Create \/ Pass \/ Fail \/ IsPassed

SpecQa == InitQa /\ [][NextQa]_vars

\* ------------------------------------------------------------------------
\* Persistence: import(), construction over a store, a store that fails
\* ------------------------------------------------------------------------

MaxPersistOps == 3

\* A property of the object handed to import(): given, or absent.
Given(value) == [given |-> TRUE, value |-> value]
NotGiven(empty) == [given |-> FALSE, value |-> empty]

\* The empty maps {} of roles and of users.
NoRoles == [r \in RoleIds |-> NoRole]
NoUsers == [u \in UserIds |-> NoUser]

\* An exported configuration: the FINANCE role, held by u2.
ExportedRoles ==
    [NoRoles EXCEPT !["fin"] = [RoleDefined("fin", FINANCE) EXCEPT !.createdAt = ISOString(0)]]
ExportedUsers ==
    [NoUsers EXCEPT !["u2"] = [known |-> TRUE, id |-> "u2", roles |-> <<"fin">>]]

\* The objects import() is called with: a whole configuration, and roles
\* alone.
ImportInputs ==
    { [roles |-> Given(ExportedRoles), users |-> Given(ExportedUsers)],
      [roles |-> Given(ExportedRoles), users |-> NotGiven(NoUsers)] }

\* data.roles || {}
OrEmpty(property, empty) == IF property.given THEN property.value ELSE empty

Import ==
    /\ opCount < MaxRbacOps
    /\ \E data \in ImportInputs :
          /\ roles' = OrEmpty(data.roles, NoRoles)
          /\ users' = OrEmpty(data.users, NoUsers)
          /\ rbacStore' = setItem(rbacStore, SaveRbac(roles', users'))
          /\ storage' = Written
          /\ lastOp' = Call("import", <<data>>)
          /\ ret' = Returned(Undefined)
    /\ opCount' = opCount + 1
    /\ UNCHANGED <<now, peerEntries, qaVars, approvalVars, ledgerVars>>

\* new ApprovalEngine(): load() is not guarded, so getItem or JSON.parse
\* raising ends the constructor and no instance comes to be; the one in use
\* stays as it is.
NewApprovalEngine ==
    /\ opCount < MaxApprovalOps
    /\ lastOp' = Call("new ApprovalEngine", << >>)
    /\ IF Unavailable
       THEN ret' = Thrown("localStorage") /\ UNCHANGED approvals
       ELSE IF Corrupt
       THEN ret' = Thrown("SyntaxError") /\ UNCHANGED approvals
       ELSE ret' = Returned(Undefined) /\ approvals' = approvalStore
    /\ opCount' = opCount + 1
    /\ UNCHANGED <<now, peerEntries, qaVars, storage, approvalStore, rbacVars, ledgerVars>>

\* new Ledger(): entries = [], then load(), whose catch leaves [].
NewLedger ==
    /\ opCount < MaxLedgerOps
    /\ lastOp' = Call("new Ledger", << >>)
    /\ entries' = IF Unavailable \/ Corrupt THEN << >> ELSE ledgerStore
    /\ ret' = Returned(Undefined)
    /\ opCount' = opCount + 1
    /\ UNCHANGED <<now, peerEntries, qaVars, storage, ledgerStore, useHashing, tampered, rbacVars, approvalVars>>

\* new RBAC(): roles = {} and users = {}, then load(), whose catch leaves
\* them.
NewRBAC ==
    /\ opCount < MaxRbacOps
    /\ lastOp' = Call("new RBAC", << >>)
    /\ roles' = IF Unavailable \/ Corrupt THEN NoRoles ELSE rbacStore.roles
    /\ users' = IF Unavailable \/ Corrupt THEN NoUsers ELSE rbacStore.users
    /\ ret' = Returned(Undefined)
    /\ opCount' = opCount + 1
    /\ UNCHANGED <<now, peerEntries, qaVars, storage, rbacStore, approvalVars, ledgerVars>>

\* The store stops working, or the value under the key is replaced by text
\* that is not JSON.
StoreFails ==
    /\ storage.status = "ok"
    /\ \E status \in {"corrupt", "unavailable"} :
          /\ storage' = [storage EXCEPT !.status = status]
          /\ lastOp' = Call("localStorage", <<status>>)
    /\ ret' = Returned(Undefined)
    /\ UNCHANGED <<now, peerEntries, qaVars, opCount, approvalVars, ledgerVars, rbacVars>>

InitPersist == InitApproval \/ InitLedger \/ InitRbac

NextPersist ==
    \/ /\ opCount < MaxPersistOps
       /\ storage.component = "approval"
       /\ (RequestApproval \/ Approve \/ Reject \/ NewApprovalEngine)
    \/ /\ opCount < MaxPersistOps
       /\ storage.component = "ledger"
       /\ (Record \/ Clear \/ NewLedger)
    \/ /\ opCount < MaxPersistOps
       /\ storage.component = "rbac"
       /\ (DefineRole \/ AssignRole \/ RemoveRole \/ Import \/ NewRBAC)
    \/ StoreFails

SpecPersist == InitPersist /\ [][NextPersist]_vars

\* Two Ledger instances over the same storage key (two pages of the
\* application, two `new Ledger()` in one page).  `entries` is the instance
\* whose method runs next and `peerEntries` the other one: control passes
\* from one instance to the other between two calls.
Switch ==
    /\ entries' = peerEntries
    /\ peerEntries' = entries
    /\ lastOp' = Call("switch", << >>)
    /\ ret' = Returned(Undefined)
    /\ UNCHANGED <<now, opCount, storage, qaVars, rbacVars, approvalVars, ledgerStore,
                   useHashing, tampered>>

\* Either instance records, or is constructed anew over the store.
NextLedgerPeers == LedgerTick \/ Record \/ Switch \/ NewLedger

SpecLedgerPeers == InitLedger /\ [][NextLedgerPeers]_vars

\* ------------------------------------------------------------------------
\* ApprovalEngine: properties
\* ------------------------------------------------------------------------

\* The users who appear as approver in a request's log.
LogApprovers(approval) ==
    { approval.approvals[i].userId : i \in 1..Len(approval.approvals) }

\* The approvers a request requires (none when the property is absent).
Required(approval) == approval.requiredApprovers.items

\* C1: a request whose status is 'approved' has every required approver in
\* its approval log.
C1_ApprovedHasQuorum ==
    \A k \in 1..Len(approvals) :
        approvals[k].status = "approved" => Required(approvals[k]) \subseteq LogApprovers(approvals[k])

\* A request with two required approvers has been approved.
C1_Witness ==
    \E k \in 1..Len(approvals) :
        /\ approvals[k].status = "approved"
        /\ Required(approvals[k]) = {"A", "B"}

\* C2: approve() on a pending request with two or more required approvers
\* leaves it pending while a required approver is missing from the log, and
\* makes it approved in the very call that completes the log.
C2_QuorumTransition ==
    [][ (lastOp'.name = "approve" /\ ~ret'.error) =>
          \A k \in 1..Len(approvals) :
              ( /\ approvals[k].status = "pending"
                /\ Cardinality(Required(approvals[k])) >= 2
                /\ approvals'[k].approvals # approvals[k].approvals )
              => approvals'[k].status =
                     IF Required(approvals[k]) \subseteq LogApprovers(approvals'[k])
                     THEN "approved" ELSE "pending" ]_vars

\* A two-approver request reached 'approved' by a log of three approvals:
\* a repeated or non-required approval came before the completing one.
C2_Witness ==
    /\ lastOp.name = "approve"
    /\ \E k \in 1..Len(approvals) :
          /\ Required(approvals[k]) = {"A", "B"}
          /\ approvals[k].status = "approved"
          /\ Len(approvals[k].approvals) = 3
          /\ approvals[k].approvals[3].userId \in {"A", "B"}
          /\ approvals[k].approvals[3].userId \notin
                 { approvals[k].approvals[i].userId : i \in 1..2 }

\* C3: approve() on a request that is already 'approved' or 'rejected' never
\* changes its status.
C3_ApproveKeepsTerminalStatus ==
    [][ lastOp'.name = "approve" =>
          \A k \in 1..Len(approvals) :
              approvals[k].status \in {"approved", "rejected"}
              => approvals'[k].status = approvals[k].status ]_vars

\* C4: reject(id, user, reason) leaves the request it finds 'rejected' with
\* the user and the reason recorded, whatever its status and log were, and
\* leaves its log and required approvers as they were.
C4_RejectUnconditional ==
    [][ (lastOp'.name = "reject" /\ ~ret'.error) =>
          \E k \in 1..Len(approvals) :
              /\ approvals[k].id = lastOp'.args[1]
              /\ approvals'[k].status = "rejected"
              /\ approvals'[k].rejectedBy = lastOp'.args[2]
              /\ approvals'[k].rejectionReason = lastOp'.args[3]
              /\ approvals'[k].approvals = approvals[k].approvals
              /\ approvals'[k].requiredApprovers = approvals[k].requiredApprovers ]_vars

\* reject() has just hit a request whose log holds the full quorum.
C4_Witness ==
    /\ lastOp.name = "reject"
    /\ ~ret.error
    /\ \E k \in 1..Len(approvals) :
          /\ approvals[k].id = lastOp.args[1]
          /\ approvals[k].status = "rejected"
          /\ Required(approvals[k]) = {"A", "B"}
          /\ {"A", "B"} \subseteq LogApprovers(approvals[k])

\* ------------------------------------------------------------------------
\* Ledger: properties
\* ------------------------------------------------------------------------

\* C5: starting from an empty ledger, after any sequence of record() calls,
\* with clear() calls anywhere between them, verify() reports the ledger
\* valid.
C5_VerifyValid == verify(entries).valid

\* verify() has just accepted a hashed ledger of two entries, the last one
\* recorded with an id, a timestamp, a previousHash and a hash of the
\* caller's own.
C5_Witness ==
    /\ lastOp.name = "verify"
    /\ useHashing
    /\ Len(entries) = 2
    /\ entries[2].id = <<88, 49>>
    /\ ret.value.valid

\* C6: when one stored field of one entry of a ledger built by record() is
\* changed and the entry's hash is not recomputed, verify() reports the
\* ledger invalid and names the tampered entry.  (Stated for a ledger that
\* hashes.)
C6_TamperDetected ==
    (useHashing /\ tampered # 0 /\ lastOp.name = "verify")
    => (~ret.value.valid /\ ret.value.index = tampered - 1)

\* previousHash of the first entry is '0', and of every later entry the
\* stored hash of the entry before it.
Linked ==
    \A i \in 1..Len(entries) :
        entries[i].previousHash = IF i = 1 THEN <<48>> ELSE entries[i - 1].hash

\* C7, as stated: the linkage holds in every state record() and clear()
\* reach, whatever options the Ledger was constructed with.
C7_LinkedWhateverOptions == Linked

\* C7, amended: the linkage holds in every state record() and clear() reach
\* on a Ledger constructed with hashing on.
C7_LinkedWhenHashing == useHashing => Linked

\* A hashing ledger holds two entries, the second recorded from an input
\* that carried a previousHash of its own.
C7_Witness ==
    /\ useHashing
    /\ Len(entries) = 2
    /\ lastOp.name = "record"
    /\ lastOp.args[1].previousHash = <<101, 101>>
    /\ entries[2].previousHash = entries[1].hash

\* C8: record() leaves the sequence as it was with exactly one entry added
\* at the end; getHistory, getByAction, getByUser, getByDateRange, verify,
\* export and exportCSV leave the sequence and the persisted store as they
\* were.
C8_AppendOnly ==
    [][ /\ lastOp'.name = "record" =>
              /\ Len(entries') = Len(entries) + 1
              /\ SubSeq(entries', 1, Len(entries)) = entries
        /\ lastOp'.name \in {"getHistory", "getByAction", "getByUser", "getByDateRange",
                             "verify", "export", "exportCSV"} =>
              /\ entries' = entries
              /\ ledgerStore' = ledgerStore ]_vars

\* record() has just added a second entry, different from the first.
C8_Witness ==
    /\ lastOp.name = "record"
    /\ Len(entries) = 2
    /\ entries[1] # entries[2]

\* ------------------------------------------------------------------------
\* RBAC: properties
\* ------------------------------------------------------------------------

\* The permission specs a level is given when the other levels of a role
\* are varied.
OtherSpecs ==
    { Missing, Wildcard, ListOf(<<"scope", "0">>), ListOf(<<"*">>),
      MapOf({MapEntry("scope", TRUE, << >>)}) }

\* C9: for a user whose role list holds 'admin' or 'superuser', can() is
\* true at every level, for every resource type and instance id, whatever
\* the roles the user holds define.
C9_SuperuserBypass ==
    \A u \in UserIds :
        (users[u].known /\ (Includes(users[u].roles, "admin")
                            \/ Includes(users[u].roles, "superuser")))
        => \A l \in Levels, t \in Resources, i \in ResourceIds :
               can(roles, users, u, l, t, i) = Returned(TRUE)

\* can() has just let a user through who holds 'admin', a role that defines
\* no level at all, after a role whose view level is a map.
C9_Witness ==
    /\ users["u1"].roles = <<"pm", "admin">>
    /\ roles["pm"].view.kind = "object"
    /\ roles["admin"].view = Missing
    /\ lastOp = Call("can", <<"u1", "view", "scope", "i1">>)
    /\ ret = Returned(TRUE)

\* C10: for a user who holds one role, not 'admin' or 'superuser': when the
\* role's spec at the level asked is '*', can() is true for every resource
\* type; when it is a list without '*', can() is true for the types in the
\* list and false for every other; and what the role holds at the other
\* levels does not change the result.
C10_WildcardAndList ==
    \A u \in UserIds :
        ( /\ users[u].known
          /\ Len(users[u].roles) = 1
          /\ users[u].roles[1] \notin {"admin", "superuser"} )
        => LET r == users[u].roles[1]
           IN  \A l \in Levels :
                 /\ roles[r][l] = Wildcard
                    => \A t \in Resources, i \in ResourceIds :
                           can(roles, users, u, l, t, i) = Returned(TRUE)
                 /\ (roles[r][l].kind = "array" /\ ~Includes(roles[r][l].items, "*"))
                    => \A t \in Resources, i \in ResourceIds :
                           can(roles, users, u, l, t, i)
                               = Returned(Includes(roles[r][l].items, t))
                 /\ (roles[r][l] = Wildcard \/ (roles[r][l].kind = "array"
                                                /\ ~Includes(roles[r][l].items, "*")))
                    => \A l2 \in Levels \ {l}, s \in OtherSpecs,
                          t \in Resources, i \in ResourceIds :
                           can([roles EXCEPT ![r][l2] = s], users, u, l, t, i)
                               = can(roles, users, u, l, t, i)

\* can() has just refused a user whose only role is FINANCE the edit of
\* 'scope': the role lists 'budget' and 'funding' at edit and has '*' at view.
C10_Witness ==
    /\ lastOp = Call("can", <<"u1", "edit", "scope", "i1">>)
    /\ ret = Returned(FALSE)
    /\ users["u1"].roles = <<"fin">>
    /\ roles["fin"].view = Wildcard
    /\ roles["fin"].edit = ListOf(<<"budget", "funding">>)

\* The user holds exactly one role, and it is not 'admin' or 'superuser'.
SingleRole(u) ==
    /\ users[u].known
    /\ Len(users[u].roles) = 1
    /\ users[u].roles[1] \notin {"admin", "superuser"}

\* What a map grants: its entry for the resource type is '*', or is a list
\* that holds the instance id.
MapGrants(map, t, i) == \E e \in map : e.key = t /\ (e.all \/ Includes(e.ids, i))

\* C11: for a user whose one role holds a map at the level asked, can()
\* returns true when the map's entry for the resource type is '*' or a list
\* with the instance id in it, and false when the map has no entry for the
\* type or the list does not hold the id.
C11_MapSpec ==
    \A u \in UserIds :
        SingleRole(u) =>
            \A l \in Levels :
                roles[users[u].roles[1]][l].kind = "object" =>
                    \A t \in Resources, i \in ResourceIds :
                        LET answer == can(roles, users, u, l, t, i)
                        IN  /\ ~answer.error
                            /\ answer.value = MapGrants(roles[users[u].roles[1]][l].map, t, i)

\* C12: can() returns a boolean and raises no error, for every user id,
\* level, resource type and instance id, whatever the roles define; for an
\* unknown user it returns false.
C12_CanIsTotal ==
    \A u \in UserIds, l \in Levels, t \in Resources, i \in ResourceIds :
        /\ ~can(roles, users, u, l, t, i).error
        /\ ~users[u].known => can(roles, users, u, l, t, i) = Returned(FALSE)

\* C13: assignRole(user, role) with a role id that was never defined fails
\* with an error and leaves the role definitions, the user records and the
\* persisted store as they were.
C13_AssignUndefinedRoleFails ==
    [][ (lastOp'.name = "assignRole" /\ ~roles[lastOp'.args[2]].defined) =>
          /\ ret'.error
          /\ roles' = roles
          /\ users' = users
          /\ rbacStore' = rbacStore ]_vars

\* C14: approve() and reject() called with an id that no request carries
\* fail with an error and leave every request and the persisted store as
\* they were.
C14_UnknownIdFails ==
    [][ ( /\ lastOp'.name \in {"approve", "reject"}
          /\ \A k \in 1..Len(approvals) : approvals[k].id # lastOp'.args[1] )
        => /\ ret'.error
           /\ approvals' = approvals
           /\ approvalStore' = approvalStore ]_vars

\* reject() has just failed on an unknown id while the list holds a request
\* that an earlier approve() had written to.
C14_Witness ==
    /\ lastOp.name = "reject"
    /\ ret = Thrown("Approval not found")
    /\ Len(approvals) = 1
    /\ Len(approvals[1].approvals) = 1

\* C15: every requestApproval() call returns an identifier that no other
\* request of the list carries, whatever the caller's request object holds
\* and however closely the calls follow each other.
C15_UniqueIds ==
    \A i, j \in 1..Len(approvals) : i # j => approvals[i].id # approvals[j].id

\* C16: getPending() without a user returns exactly the pending requests,
\* in creation order; getPending(u) returns exactly the pending requests
\* whose required approvers include u.
C16_GetPending ==
    lastOp.name = "getPending" =>
        /\ ~ret.error
        /\ ret.value = Kept(approvals, [i \in 1..Len(approvals) |->
                                /\ approvals[i].status = "pending"
                                /\ \/ lastOp.args[1] = Null
                                   \/ lastOp.args[1] \in Required(approvals[i])])

\* C17: defineRole(r, s2) on a role already defined replaces what the role
\* holds at every level by what s2 holds there (nothing of the earlier
\* definition stays), raises no error, and leaves every other role and the
\* users' role lists as they were; can() is then what it is on an RBAC
\* object where r was defined by s2 only.
C17_RedefineReplaces ==
    [][ lastOp'.name = "defineRole" =>
          LET r == lastOp'.args[1]
              s2 == lastOp'.args[2]
          IN  /\ ~ret'.error
              /\ users' = users
              /\ \A l \in Levels : roles'[r][l] = s2[l]
              /\ \A q \in RoleIds \ {r} : roles'[q] = roles[q]
              /\ \A u \in UserIds, l \in Levels, t \in Resources, i \in ResourceIds :
                     can(roles', users', u, l, t, i)
                         = can([roles EXCEPT ![r] = [NoRole EXCEPT
                                    !.defined = TRUE, !.view = s2.view, !.edit = s2.edit,
                                    !.approve = s2.approve, !.admin = s2.admin]],
                               users, u, l, t, i) ]_vars

\* 'fin' has just been redefined as AUDITOR while a user holds it: to be
\* assigned it was defined before, as FINANCE or as AUDITOR.
C17_Witness ==
    /\ lastOp = Call("defineRole", <<"fin", AUDITOR>>)
    /\ users["u1"].roles = <<"fin">>
    /\ can(roles, users, "u1", "edit", "budget", "null") = Returned(FALSE)

\* No role id is twice in a user's role list.
NoDuplicates(us) ==
    \A u \in UserIds : \A i, j \in 1..Len(us[u].roles) :
        i # j => us[u].roles[i] # us[u].roles[j]

\* C18: assignRole(u, r) when u already holds r leaves the role definitions
\* and the user records as they were, and after any sequence of defineRole,
\* assignRole and removeRole calls no user's role list holds a role id twice.
C18_AssignIdempotent ==
    [][ /\ ( /\ lastOp'.name = "assignRole"
             /\ Includes(users[lastOp'.args[1]].roles, lastOp'.args[2]) )
           => (roles' = roles /\ users' = users /\ ~ret'.error)
        /\ NoDuplicates(users') ]_vars

\* assignRole('u1', 'fin') has just been called on a user who held 'fin'
\* already: 'pm' was assigned after it.
C18_Witness ==
    /\ lastOp = Call("assignRole", <<"u1", "fin">>)
    /\ users["u1"].roles = <<"fin", "pm">>

\* C19: removeRole(u, r) leaves the role definitions and every other user
\* as they were; when u is unknown or does not hold r the user records stay
\* as they were, and when u holds r exactly r leaves u's roles, the other
\* roles staying in their order.
C19_RemoveRoleFrame ==
    [][ lastOp'.name = "removeRole" =>
          LET u == lastOp'.args[1]
              r == lastOp'.args[2]
              Other(x) == x # r
          IN  /\ roles' = roles
              /\ \A v \in UserIds \ {u} : users'[v] = users[v]
              /\ IF ~users[u].known \/ ~Includes(users[u].roles, r)
                 THEN users' = users
                 ELSE /\ users'[u].roles = SelectSeq(users[u].roles, Other)
                      /\ Len(users'[u].roles) = Len(users[u].roles) - 1
                      /\ users'[u].known ]_vars

\* removeRole('u1', 'fin') was the third call and has left a known user with
\* no role: the first two calls defined 'fin' and assigned it.
C19_Witness ==
    /\ lastOp = Call("removeRole", <<"u1", "fin">>)
    /\ opCount = 3
    /\ users["u1"].known
    /\ users["u1"].roles = << >>

\* The level filterByPermission() asks can() for: 'view' by default.
AskedLevel(permission) == IF permission = Undefined THEN "view" ELSE permission

\* C20, as stated: filterByPermission(user, items, level) returns exactly
\* the items, in their order, for which can(user, level, T, item.id) is
\* true, T being the item's resourceType field, or 'project' when that
\* field is absent.
C20_FilterByResourceType ==
    lastOp.name = "filterByPermission" =>
        LET u == lastOp.args[1]
            l == AskedLevel(lastOp.args[3])
            Passes(item) ==
                can(roles, users, u, l,
                    IF item.resourceType = Undefined THEN "project" ELSE item.resourceType,
                    item.id) = Returned(TRUE)
        IN  /\ ~ret.error
            /\ ret.value = SelectSeq(lastOp.args[2], Passes)

\* C20, amended: T is the item's type field, or 'project' when that field
\* is absent or empty; when can() raises for an item filterByPermission
\* raises, and otherwise it returns exactly the items, in their order, for
\* which can(user, level, T, item.id) is true.
C20_FilterByType ==
    lastOp.name = "filterByPermission" =>
        LET u == lastOp.args[1]
            l == AskedLevel(lastOp.args[3])
            T(item) == IF item.type = Undefined \/ item.type = "" THEN "project"
                       ELSE item.type
            Raises(item) == can(roles, users, u, l, T(item), item.id).error
            Passes(item) == ~Raises(item)
                            /\ can(roles, users, u, l, T(item), item.id).value
        IN  IF \E k \in 1..Len(lastOp.args[2]) : Raises(lastOp.args[2][k])
            THEN ret.error
            ELSE ret = Returned(SelectSeq(lastOp.args[2], Passes))

\* filterByPermission at 'edit' has just kept the 'budget' item and dropped
\* the 'scope' item and the item without a type, for a user whose role
\* lists 'budget' and 'funding' at edit.
C20_Witness ==
    /\ lastOp.name = "filterByPermission"
    /\ lastOp.args[3] = "edit"
    /\ users["u1"].roles = <<"fin">>
    /\ roles["fin"].edit = ListOf(<<"budget", "funding">>)
    /\ Len(lastOp.args[2]) = 3
    /\ ret = Returned(<<Item("i1", "budget", Undefined)>>)

\* The fields a field list names.
Listed(fields) == { fields[k] : k \in 1..Len(fields) }

\* C21, as stated: maskFields(user, record, fields) returns a record with
\* the fields of the input, in which exactly the listed fields f for which
\* can(user, 'view', f) is false hold the sentinel and every other field
\* holds its value.
C21_MaskKeepsFields ==
    lastOp.name = "maskFields" =>
        LET u == lastOp.args[1]
            data == lastOp.args[2]
        IN  /\ ~ret.error
            /\ DOMAIN ret.value = DOMAIN data
            /\ \A f \in DOMAIN data :
                  ret.value[f] =
                      IF /\ f \in Listed(lastOp.args[3])
                         /\ can(roles, users, u, "view", f, Null) = Returned(FALSE)
                      THEN Sentinel ELSE data[f]

\* C21, amended: when can() raises for a listed field maskFields raises;
\* otherwise the result has the fields of the input and every listed field
\* that can() denies (one the input lacks is added), the denied fields
\* holding the sentinel and every other field its value.
C21_MaskAddsDenied ==
    lastOp.name = "maskFields" =>
        LET u == lastOp.args[1]
            data == lastOp.args[2]
            listed == Listed(lastOp.args[3])
        IN  IF \E f \in listed : can(roles, users, u, "view", f, Null).error
            THEN ret.error
            ELSE LET denied == { f \in listed :
                                   can(roles, users, u, "view", f, Null) = Returned(FALSE) }
                 IN  /\ ~ret.error
                     /\ DOMAIN ret.value = DOMAIN data \cup denied
                     /\ \A f \in denied : ret.value[f] = Sentinel
                     /\ \A f \in DOMAIN data \ denied : ret.value[f] = data[f]

\* maskFields has just masked 'budget' and left 'note' for a user whose
\* role lists 'scope' at the view level: 'scope', listed and viewable, was
\* not added.
C21_Witness ==
    /\ lastOp = Call("maskFields", <<"u1", MaskedRecord, <<"budget", "scope">>>>)
    /\ users["u1"].roles = <<"pm">>
    /\ roles["pm"].view = ListOf(<<"scope", "qa-reports">>)
    /\ ret = Returned([budget |-> Sentinel, note |-> "n"])

\* ------------------------------------------------------------------------
\* Persistence: properties
\* ------------------------------------------------------------------------

\* The in-memory state of the component that runs is empty.
EmptyMemory ==
    /\ approvals = << >>
    /\ entries = << >>
    /\ storage.component = "rbac" => (roles = NoRoles /\ users = NoUsers)

\* C22: with the store unavailable or corrupt, neither the construction of
\* a component (RBAC, approval engine, ledger) nor the save of a mutating
\* operation raises, and a component constructed then has empty state.
C22_StoreFailureCaught ==
    [][ (Unavailable \/ Corrupt) =>
          /\ ret'.error => ret'.value \notin {"localStorage", "SyntaxError"}
          /\ lastOp'.name \in {"new ApprovalEngine", "new Ledger", "new RBAC"}
             => EmptyMemory' ]_vars

\* The store holds the in-memory state of the component that runs.
Persisted ==
    /\ approvalStore = approvals
    /\ ledgerStore = entries
    /\ storage.component = "rbac" => (rbacStore.roles = roles /\ rbacStore.users = users)

Reversed(list) == [i \in 1..Len(list) |-> list[Len(list) + 1 - i]]

\* C24: what can() answers depends on the set of roles the user holds, not
\* on the order in which they were assigned: with the same roles held in
\* the opposite order can() gives the same outcome, whatever shapes (list,
\* string, map) the roles' levels have.
C24_RoleOrderIrrelevant ==
    \A userId \in {"u1", "u2"}, permission \in {"view", "edit"}, resource \in {"budget", "scope"} :
        LET there == can(roles, users, userId, permission, resource, "i1")
            back == can(roles, [users EXCEPT ![userId].roles = Reversed(@)],
                        userId, permission, resource, "i1")
        IN  /\ there.error = back.error
            /\ ~there.error => there.value = back.value

\* C25: when an entry that is not the last is modified and its own hash is
\* recomputed to match, and no later entry is changed, verify() reports the
\* ledger invalid at the entry that follows it, for a broken link.  (Stated
\* for a ledger that hashes.)
C25_ForgeryBreaksLink ==
    (useHashing /\ tampered # 0 /\ lastOp.name = "verify")
    => /\ ~ret.value.valid
       /\ ret.value.index = tampered
       /\ ret.value.message = "broken chain"

\* C26: every approve() that returns, whatever the status of the request it
\* finds and whoever approves (required or not, for the first time or
\* again), puts exactly one entry at the end of that request's log, and
\* changes no earlier entry of the log, no required-approver set and no
\* other request.
C26_ApproveAppendsOne ==
    [][ (lastOp'.name = "approve" /\ ~ret'.error) =>
          LET k == FindApproval(approvals, lastOp'.args[1])
              log == approvals[k].approvals
              after == approvals'[k].approvals
          IN  /\ Len(approvals') = Len(approvals)
              /\ Len(after) = Len(log) + 1
              /\ SubSeq(after, 1, Len(log)) = log
              /\ after[Len(after)].userId = lastOp'.args[2]
              /\ after[Len(after)].action = "approved"
              /\ \A j \in 1..Len(approvals) :
                    /\ approvals'[j].requiredApprovers = approvals[j].requiredApprovers
                    /\ j # k => approvals'[j] = approvals[j] ]_vars

\* approve() has just logged, for the second time running, a user the
\* request does not require, on a request that is no longer pending.
C26_Witness ==
    /\ lastOp.name = "approve"
    /\ ~ret.error
    /\ \E k \in 1..Len(approvals) :
          LET log == approvals[k].approvals IN
          /\ approvals[k].id = lastOp.args[1]
          /\ approvals[k].status # "pending"
          /\ Len(log) >= 2
          /\ log[Len(log)].userId = log[Len(log) - 1].userId
          /\ log[Len(log)].userId \notin Required(approvals[k])

\* C27: the id, timestamp, previousHash and hash of the entry record()
\* stores are the ones the ledger produces (generated id, current time,
\* hash of the last entry, computed hash), never the ones the caller's
\* object carries; record() returns the generated id; the ids of the stored
\* entries are pairwise distinct.
C27_LedgerOwnsFields ==
    [][ lastOp'.name = "record" =>
          LET e == entries'[Len(entries')] IN
          /\ \E random \in RandomSuffixes : e.id = generateId(random)
          /\ e.timestamp = ISOString(now)
          /\ e.previousHash = getLastHash
          /\ e.hash = IF useHashing THEN calculateHash([e EXCEPT !.hash = undef]) ELSE undef
          /\ ret'.value = e.id
          /\ \A i, j \in 1..Len(entries') : entries'[i].id = entries'[j].id => i = j ]_vars

\* The resource types a level of a role grants: the elements of a list, the
\* keys of a map, '*' for the wildcard.
Grants(perms) ==
    IF perms.kind = "array" THEN { perms.items[i] : i \in 1..Len(perms.items) }
    ELSE IF perms.kind = "object" THEN { e.key : e \in perms.map }
    ELSE IF perms = Wildcard THEN {"*"}
    ELSE {}

\* C28: for a known user getUserPermissions() returns, at each of the four
\* levels, the union over the roles held of what they grant at that level
\* (the resource types of a list or of a map, '*' for a wildcard), each
\* value once.
C28_PermissionsUnion ==
    (lastOp.name = "getUserPermissions" /\ users[lastOp.args[1]].known) =>
        LET held == users[lastOp.args[1]].roles IN
        \A perm \in Levels :
            LET listed == ret.value[perm] IN
            /\ { listed[i] : i \in 1..Len(listed) }
                   = UNION { Grants(RoleAt(roles, held[i])[perm]) : i \in 1..Len(held) }
            /\ \A i, j \in 1..Len(listed) : listed[i] = listed[j] => i = j

\* ------------------------------------------------------------------------
\* QAGates: properties
\* ------------------------------------------------------------------------

\* Some checkpoint exists for the project and stage.
HasCheckpoint(list, pair) ==
    \E i \in 1..Len(list) : list[i].projectId = pair[1] /\ list[i].stage = pair[2]

\* C29: isPassed(project, stage) is true exactly when the last pass() or
\* fail() for that project and stage that found a checkpoint was pass(); a
\* checkpoint just created is 'pending'; pass() and fail() for a pair that
\* has no checkpoint change nothing.
C29_GateFollowsLastVerdict ==
    [][ /\ \A pair \in Pairs :
              isPassed(checkpoints', pair[1], pair[2]) <=> (verdicts'[pair] = "pass")
        /\ lastOp'.name = "isPassed"
           => ret'.value = (verdicts[<<lastOp'.args[1], lastOp'.args[2]>>] = "pass")
        /\ lastOp'.name = "create"
           => checkpoints'[Len(checkpoints')].status = "pending"
        /\ (lastOp'.name \in {"pass", "fail"}
            /\ ~HasCheckpoint(checkpoints, <<lastOp'.args[1], lastOp'.args[2]>>))
           => (checkpoints' = checkpoints /\ qaStore' = qaStore) ]_vars

\* fail() has just closed a gate that pass() had opened, on a pair that has
\* two checkpoints.
C29_Witness ==
    /\ lastOp.name = "fail"
    /\ \E i, j \in 1..Len(checkpoints) :
          /\ i < j
          /\ checkpoints[i].projectId = lastOp.args[1]
          /\ checkpoints[i].stage = lastOp.args[2]
          /\ checkpoints[j].projectId = lastOp.args[1]
          /\ checkpoints[j].stage = lastOp.args[2]
          /\ checkpoints[i].status = "failed"
          /\ checkpoints[i].passedAt # Never

\* C30, as stated: no request is 'pending' while every approver it requires
\* is in its log, requests created with an empty or absent required-approver
\* set included.
C30_PendingLacksApprover ==
    \A k \in 1..Len(approvals) :
        approvals[k].status = "pending"
        => ~(Required(approvals[k]) \subseteq LogApprovers(approvals[k]))

\* C30, amended: a request that requires someone is 'pending' only while a
\* required approver is missing from its log; a request is 'pending' with
\* its quorum complete only when it requires nobody and nobody has approved
\* it yet.
C30_PendingLacksApproverUnlessNoneRequired ==
    \A k \in 1..Len(approvals) :
        ( /\ approvals[k].status = "pending"
          /\ Required(approvals[k]) \subseteq LogApprovers(approvals[k]) )
        => (Required(approvals[k]) = {} /\ approvals[k].approvals = << >>)

\* approve() has left a two-approver request pending with one of the two in
\* its log, beside a pending request that requires nobody.
C30_Witness ==
    /\ lastOp.name = "approve"
    /\ \E k, j \in 1..Len(approvals) :
          /\ approvals[k].status = "pending"
          /\ Required(approvals[k]) = {"A", "B"}
          /\ LogApprovers(approvals[k]) = {"A"}
          /\ approvals[j].status = "pending"
          /\ Required(approvals[j]) = {}

\* C31: in every state requestApproval(), approve() and reject() reach, a
\* request carries rejection metadata (the rejecting user and the reason)
\* if and only if its status is 'rejected'.
C31_MetadataIffRejected ==
    \A k \in 1..Len(approvals) :
        (approvals[k].rejectedBy # Undefined /\ approvals[k].rejectionReason # Undefined)
        <=> approvals[k].status = "rejected"

\* C32: when two Ledger instances over the same storage key both call
\* record(), in any interleaving, the persisted list holds, after each
\* call, every entry either instance has recorded so far.
C32_NoEntryLost ==
    /\ \A i \in 1..Len(entries) :
          \E j \in 1..Len(ledgerStore) : ledgerStore[j] = entries[i]
    /\ \A i \in 1..Len(peerEntries) :
          \E j \in 1..Len(ledgerStore) : ledgerStore[j] = peerEntries[i]

====
